---- MODULE Spec2Model ----
(***************************************************************************)
(* A model of src/main.py: the MySQL -> S3 export pipeline.                *)
(*                                                                         *)
(* Time is counted in seconds since an epoch at midnight UTC.  A row       *)
(* is a record [id, ts, ctx]: its primary key, its CREATED_AT_DATE value   *)
(* and its 'context' column.  A context value is a sequence of tags: the   *)
(* last tag is the innermost value and every leading "enc" is one level of *)
(* JSON string encoding around it:                                         *)
(*    <<"obj">>               the dict {"a": 1}                            *)
(*    <<"num">>               the number 1                                 *)
(*    <<"null">>              None (SQL NULL)                              *)
(*    <<"raw">>               the str  hello      (not JSON, no brace)     *)
(*    <<"bad">>               the str  {bad       (not JSON, opens a brace)*)
(*    <<"enc", "obj">>        the str  {"a": 1}                            *)
(*    <<"enc", "enc", "obj">> the str  "{\"a\": 1}"   (double encoded)     *)
(*    <<"enc", "raw">>        the str  "hello"                             *)
(*                                                                         *)
(* One export process runs at a time (section 5 of the specification       *)
(* leaves overlapping runs to the operator); other clients insert rows at  *)
(* any moment.  The table has the CREATED_AT_DATE and 'context' columns,    *)
(* and no timestamp is NULL.                                               *)
(***************************************************************************)
EXTENDS Integers, Sequences, FiniteSets, TLC

VARIABLES
    now,           \* the wall clock, in seconds
    table,         \* the rows of MYSQL_TABLE
    nextId,        \* the table's auto-increment counter
    store,         \* the S3 bucket: a set of objects [key, rows, at]
    disk,          \* the local files: a set of file names
    fmt,           \* EXPORT_FORMAT
    minAge,        \* MIN_AGE_HOURS
    hasId,         \* whether the table's schema has an 'id' column
    pc,            \* where export_data stands
    err,           \* the exception that ended the run, or "none"
    current_time,  \* export_data's current_time
    df,            \* export_data's df, after the age filter
    todo,          \* the dates groupby has not yielded yet
    cur,           \* the date of the group of this iteration
    upres,         \* this run: date -> what upload_to_s3 returned
    delcalls,      \* this run: dates delete_uploaded_rows was called for
    crash,         \* the last kill between an upload and its delete
    startup        \* the module-level code: environment, position, outcome

vars == <<now, table, nextId, store, disk, fmt, minAge, hasId, pc, err,
          current_time, df, todo, cur, upres, delcalls, crash, startup>>

(***************************************************************************)
(* Bounds of the model.                                                    *)
(***************************************************************************)
MaxRows == 2      \* rows ever inserted
MaxMinAge == 1    \* MIN_AGE_HOURS ranges over 0..MaxMinAge
MaxEnc == 3       \* levels of JSON string encoding around a value

SecondsPerHour == 3600

SecondsPerDay == 86400

\* The instants the clock and the timestamps take: midnight of day 0, one
\* hour later, and midnight of day 1.
Instants == {0, SecondsPerHour, SecondsPerDay}

Formats == {"json", "parquet", "csv"}

\* The context values found in the table.
CtxChoices == { <<"bad">>, <<"enc", "enc", "obj">> }

NoDate == -1

\* The values double_json_load is tried on: a dict, a number, None, a str
\* that is not JSON, a str that opens a brace and is not JSON, and up to
\* MaxEnc levels of encoding of each.
JsonBases == {"obj", "num", "null", "raw", "bad"}

Wrap(b, n) == [i \in 1..(n + 1) |-> IF i <= n THEN "enc" ELSE b]

JsonValues == {Wrap(b, n) : b \in JsonBases, n \in 0..MaxEnc}

(***************************************************************************)
(* JSON values.                                                            *)
(***************************************************************************)
\* isinstance(value, str)
IsStr(v) == Head(v) \in {"enc", "raw", "bad"}

\* json.loads(s) returns for s, a str, rather than raising
Parses(s) == Head(s) = "enc"

\* json.loads(s), where it returns
Loads(s) == Tail(s)

\* x.strip().startswith('{')
StartsWithBrace(s) == s = <<"bad">> \/ s = <<"enc", "obj">>

\* A double decode that gives back the once-decoded string when the second
\* decode fails.
double_json_load_intermediate(value) ==
    IF ~IsStr(value) THEN value
    ELSE IF ~Parses(value) THEN value
    ELSE LET first == Loads(value) IN
         IF IsStr(first)
         THEN IF Parses(first) THEN Loads(first) ELSE first
         ELSE first

\* "except Exception: pass": whether an exception raised inside the try
\* leaves double_json_load
Escapes(raisedInTry) == FALSE

\* whether double_json_load(value) raises: both json.loads calls are
\* inside the try
DoubleLoadRaises(value) ==
    Escapes(IsStr(value) /\ (~Parses(value)
                              \/ (IsStr(Loads(value)) /\ ~Parses(Loads(value)))))

double_json_load(value) ==
    IF ~IsStr(value) THEN value
    ELSE IF ~Parses(value) THEN value
    ELSE LET first == Loads(value) IN
         IF IsStr(first)
         THEN IF Parses(first) THEN Loads(first) ELSE value
         ELSE first

\* The lambda of clean_nested_json_fields: whether it raises on x, and
\* what it returns where it does not.
CleanRaises(x) == IsStr(x) /\ StartsWithBrace(x) /\ ~Parses(x)

CleanValue(x) == IF IsStr(x) /\ StartsWithBrace(x) THEN Loads(x) ELSE x

clean_nested_json_fields(rows) ==
    {[id |-> r.id, ts |-> r.ts, ctx |-> CleanValue(r.ctx)] : r \in rows}

(***************************************************************************)
(* Dates, the age filter and the groups.                                   *)
(***************************************************************************)
\* .dt.date / strftime('%Y-%m-%d'): the day number of an instant
DateOf(t) == t \div SecondsPerDay

\* strftime('%H-%M-%S'): the time of day of an instant
TimeOfDay(t) == t % SecondsPerDay

\* current_time - timedelta(hours=MIN_AGE_HOURS)
CutoffTime(t, age) == t - age * SecondsPerHour

\* A filter that drops the rows exactly at the cutoff.
AgeFilterStrict(rows, cutoff) == {r \in rows : r.ts < cutoff}

\* df[df[CREATED_AT_DATE] <= cutoff_time]
AgeFilter(rows, cutoff) == {r \in rows : r.ts <= cutoff}

\* df['context'].apply(double_json_load)
LoadContext(rows) ==
    {[id |-> r.id, ts |-> r.ts, ctx |-> double_json_load(r.ctx)] : r \in rows}

\* the keys of df.groupby('created_date')
Dates(rows) == {DateOf(r.ts) : r \in rows}

\* A grouping that takes every row up to the date.
GroupUpTo(rows, d) == {r \in rows : DateOf(r.ts) <= d}

\* the group groupby yields for a date
Group(rows, d) == {r \in rows : DateOf(r.ts) = d}

Ids(rows) == {r.id : r \in rows}

Min(S) == CHOOSE x \in S : \A y \in S : x <= y

\* A key without the run's time of day.
S3KeyNoTime(f, d, t) == <<f, d, 0>>

\* filename and s3_key: table name fixed, so a name is the date, the run's
\* time of day and the format
Filename(d, t) == <<d, TimeOfDay(t)>>

\* A key dated by the run instead of by the partition.
S3KeyRunDate(f, d, t) == <<f, DateOf(t), TimeOfDay(t)>>

\* s3_key
S3Key(f, d, t) == <<f, d, TimeOfDay(t)>>

LocalPath(f, d, t) == <<Filename(d, t), f>>

\* what the exported file holds
FileRows(f, group) == IF f = "json" THEN clean_nested_json_fields(group) ELSE group

\* The type pyarrow infers for one value of an object column; None has
\* none and goes with every type.
ArrowKind(v) ==
    IF IsStr(v) THEN "string"
    ELSE IF Head(v) = "obj" THEN "struct"
    ELSE IF Head(v) = "num" THEN "int64"
    ELSE "null"

\* df.to_parquet(engine='pyarrow') raises when the values of the context
\* column, None apart, are not all of one type: the column is converted
\* before the file is opened, so no file is written.
ParquetRaises(group) ==
    \E r, q \in group :
        /\ ArrowKind(r.ctx) # "null"
        /\ ArrowKind(q.ctx) # "null"
        /\ ArrowKind(r.ctx) # ArrowKind(q.ctx)

\* export_as_json raises when a context value does not decode,
\* export_as_parquet when the context column mixes types
ExportRaises(f, group) ==
    \/ f = "json" /\ \E r \in group : CleanRaises(r.ctx)
    \/ f = "parquet" /\ ParquetRaises(group)

\* the exception that leaves the export: json.JSONDecodeError from
\* json.loads, pyarrow's ArrowInvalid or ArrowTypeError (both are
\* ArrowException) from to_parquet
ExportError(f) == IF f = "json" THEN "JSONDecodeError" ELSE "ArrowException"

(***************************************************************************)
(* The object store and the database.                                      *)
(***************************************************************************)
\* s3.upload_file: the object at the key is replaced by the file; "at"
\* records the start of the run that wrote it
PutObject(objs, key, rows, t) ==
    {o \in objs : o.key # key} \cup {[key |-> key, rows |-> rows, at |-> t]}

\* An upload that lets the transport's exception through.
upload_to_s3_raising(transferred) ==
    [raised |-> ~transferred, success |-> transferred]

\* An upload that reports success whatever happened.
upload_to_s3_optimistic(transferred) == [raised |-> FALSE, success |-> TRUE]

\* upload_to_s3, where transferred tells whether boto3 got the file
\* through: any exception is caught and becomes a False
upload_to_s3(transferred) == [raised |-> FALSE, success |-> transferred]

\* DELETE FROM table WHERE id IN (ids)
DeleteWhereIdIn(tbl, ids) == {r \in tbl : r.id \notin ids}

\* A delete without a transaction: the rows removed before the failure
\* stay removed.
PartlyDeleted(tbl, ids) == {r \in tbl : r.id # Min(ids)}

\* conn.begin(): the transaction is rolled back when execute raises
RolledBack(tbl, ids) == tbl

\* A delete of everything as old as the exported rows, whatever its id.
delete_older_rows(tbl, group, idColumn, committed) ==
    IF ~idColumn THEN [raised |-> FALSE, table |-> tbl]
    ELSE IF committed
         THEN [raised |-> FALSE,
               table |-> {r \in tbl : \A g \in group : r.ts > g.ts}]
         ELSE [raised |-> TRUE, table |-> tbl]

\* A delete that does not look for the 'id' column first: the lookup of
\* df_group['id'] raises.
delete_rows_unchecked(tbl, group, idColumn, committed) ==
    IF ~idColumn THEN [raised |-> TRUE, table |-> tbl]
    ELSE IF committed
         THEN [raised |-> FALSE, table |-> DeleteWhereIdIn(tbl, Ids(group))]
         ELSE [raised |-> TRUE, table |-> RolledBack(tbl, Ids(group))]

\* delete_uploaded_rows, where committed tells whether the transaction
\* went through; it returns early when there is no 'id' column
delete_uploaded_rows(tbl, group, idColumn, committed) ==
    IF ~idColumn THEN [raised |-> FALSE, table |-> tbl]
    ELSE IF committed
         THEN [raised |-> FALSE, table |-> DeleteWhereIdIn(tbl, Ids(group))]
         ELSE [raised |-> TRUE, table |-> RolledBack(tbl, Ids(group))]

\* A run that treats an empty result as an error.
AfterFilterRaising(rows) == IF rows = {} THEN "aborted" ELSE "loop"

\* "if df.empty: ... return"
AfterFilter(rows) == IF rows = {} THEN "done" ELSE "loop"

\* the loop of export_data goes on to the next group, or ends
AfterGroup(left) == IF left = {} THEN "done" ELSE "loop"

\* A loop that calls the delete whatever the upload returned.
AfterUploadUngated(success, left) == "uploaded"

\* A loop that uploads again after a failed upload.
AfterUploadRetry(success, left) == IF success THEN "uploaded" ELSE "serialized"

\* "if success:": the delete is called after a successful upload only
AfterUpload(success, left) == IF success THEN "uploaded" ELSE AfterGroup(left)

NoCrash == [phase |-> "none", date |-> NoDate, key |-> <<>>, ids |-> {}, rows |-> {}]

(***************************************************************************)
(* The module-level code: configuration, engine, validation.               *)
(***************************************************************************)
\* the settings the module reads with os.getenv
Settings ==
    {"MYSQL_HOST", "MYSQL_USER", "MYSQL_PORT", "MYSQL_PASSWORD",
     "MYSQL_DATABASE", "MYSQL_TABLE", "CREATED_AT_DATE", "EXPORT_FORMAT",
     "MIN_AGE_HOURS", "AWS_ACCESS_KEY_ID", "AWS_SECRET_ACCESS_KEY",
     "AWS_REGION", "S3_BUCKET_NAME"}

\* required_vars of validate_env_vars
required_vars ==
    {"MYSQL_HOST", "MYSQL_USER", "MYSQL_TABLE", "MYSQL_PORT", "MYSQL_PASSWORD",
     "MYSQL_DATABASE", "AWS_ACCESS_KEY_ID", "AWS_SECRET_ACCESS_KEY",
     "AWS_REGION", "S3_BUCKET_NAME"}

\* the settings the module passes to int()
IntSettings == {"MYSQL_PORT", "MIN_AGE_HOURS"}

\* What os.getenv can give for a setting: None ("unset"), the empty string
\* ("empty"), a string that is an integer literal ("int"), any other
\* non-empty string ("text"). Only the settings passed to int() tell an
\* integer literal from another string.
ValueKinds(intSetting) ==
    IF intSetting THEN {"unset", "empty", "text", "int"}
    ELSE {"unset", "empty", "text"}

\* an environment with every setting well formed
GoodEnv == [n \in Settings |-> IF n \in IntSettings THEN "int" ELSE "text"]

\* not os.getenv(var): None and '' are both falsy
Falsy(env, var) == env[var] \in {"unset", "empty"}

\* missing = [var for var in required_vars if not os.getenv(var)]
MissingVars(env) == {var \in required_vars : Falsy(env, var)}

\* int(os.getenv(var)): TypeError on None, ValueError on a string that is
\* not an integer literal (the empty string included), else the integer
IntError(env, var) ==
    IF env[var] = "unset" THEN "TypeError"
    ELSE IF env[var] = "int" THEN "none"
    ELSE "ValueError"

\* the module starts: nothing read yet
Starting(env) ==
    [env |-> env, at |-> "port", error |-> "none", engine |-> FALSE,
     missing |-> {}]

\* the module has run to its end: export_data may be called
Started(env) ==
    [env |-> env, at |-> "ready", error |-> "none", engine |-> TRUE,
     missing |-> {}]

(***************************************************************************)
(* The state machine.                                                      *)
(***************************************************************************)
InitRun ==
    /\ now = 0
    /\ table = {}
    /\ nextId = 1
    /\ store = {}
    /\ disk = {}
    /\ fmt \in Formats
    /\ minAge \in 0..MaxMinAge
    /\ hasId \in BOOLEAN
    /\ pc = "idle"
    /\ err = "none"
    /\ current_time = 0
    /\ df = {}
    /\ todo = {}
    /\ cur = NoDate
    /\ upres = {}
    /\ delcalls = {}
    /\ crash = NoCrash

Init == InitRun /\ startup = Started(GoodEnv)

\* Another client inserts a row.
Insert(ts, ctx) ==
    /\ nextId <= MaxRows
    /\ table' = table \cup {[id |-> nextId, ts |-> ts, ctx |-> ctx]}
    /\ nextId' = nextId + 1
    /\ UNCHANGED <<now, store, disk, fmt, minAge, hasId, pc, err, current_time,
                   df, todo, cur, upres, delcalls, crash, startup>>

\* Time passes.
Tick(t) ==
    /\ t > now
    /\ now' = t
    /\ UNCHANGED <<table, nextId, store, disk, fmt, minAge, hasId, pc, err,
                   current_time, df, todo, cur, upres, delcalls, crash, startup>>

\* export_data up to the loop: read the table, decode the context column,
\* take current_time, filter by age, return when nothing is left.
StartRun ==
    /\ startup.at = "ready"
    /\ pc \in {"idle", "done", "aborted", "killed"}
    /\ current_time' = now
    /\ IF \E r \in table : DoubleLoadRaises(r.ctx)
       THEN df' = {} /\ todo' = {} /\ pc' = "aborted" /\ err' = "JSONDecodeError"
       ELSE /\ df' = AgeFilter(LoadContext(table), CutoffTime(now, minAge))
            /\ todo' = Dates(df')
            /\ pc' = AfterFilter(df')
            /\ err' = "none"
    /\ cur' = NoDate
    /\ upres' = {}
    /\ delcalls' = {}
    /\ crash' = IF crash.phase = "crashed" THEN [crash EXCEPT !.phase = "rerun"]
                ELSE NoCrash
    /\ UNCHANGED <<now, table, nextId, store, disk, fmt, minAge, hasId, startup>>

\* The head of one iteration: the next group in date order, the format
\* test and the export to a local file.
Serialize ==
    /\ pc = "loop"
    /\ LET d == Min(todo)
           group == Group(df, d)
       IN /\ cur' = d
          /\ todo' = todo \ {d}
          /\ IF fmt \notin {"json", "parquet"}
             THEN pc' = "aborted" /\ err' = "ValueError" /\ disk' = disk
             ELSE IF ExportRaises(fmt, group)
             THEN pc' = "aborted" /\ err' = ExportError(fmt) /\ disk' = disk
             ELSE /\ pc' = "serialized"
                  /\ err' = err
                  /\ disk' = disk \cup {LocalPath(fmt, d, current_time)}
    /\ UNCHANGED <<now, table, nextId, store, fmt, minAge, hasId, current_time,
                   df, upres, delcalls, crash, startup>>

\* success = upload_to_s3(file_path, s3_key)
Upload(transferred) ==
    /\ pc = "serialized"
    /\ LET res == upload_to_s3(transferred)
           key == S3Key(fmt, cur, current_time)
       IN IF res.raised
          THEN pc' = "aborted" /\ err' = "UploadError" /\ UNCHANGED <<store, upres>>
          ELSE /\ upres' = upres \cup {<<cur, res.success>>}
               /\ store' = IF transferred
                           THEN PutObject(store, key, FileRows(fmt, Group(df, cur)),
                                          current_time)
                           ELSE store
               /\ pc' = AfterUpload(res.success, todo)
               /\ err' = err
    /\ UNCHANGED <<now, table, nextId, disk, fmt, minAge, hasId, current_time,
                   df, todo, cur, delcalls, crash, startup>>

\* if success: delete_uploaded_rows(group)
Delete(committed) ==
    /\ pc = "uploaded"
    /\ delcalls' = delcalls \cup {cur}
    /\ LET res == delete_uploaded_rows(table, Group(df, cur), hasId, committed)
       IN /\ table' = res.table
          /\ pc' = IF res.raised THEN "aborted" ELSE AfterGroup(todo)
          /\ err' = IF res.raised THEN "DBError" ELSE err
    /\ UNCHANGED <<now, nextId, store, disk, fmt, minAge, hasId, current_time,
                   df, todo, cur, upres, crash, startup>>

\* The process is killed in the middle of a run: what it held in memory is
\* gone, the table, the bucket and the disk stay as they are.
Kill ==
    /\ pc \in {"loop", "serialized", "uploaded"}
    /\ pc' = "killed"
    /\ crash' = IF pc = "uploaded"
                THEN [phase |-> "crashed", date |-> cur,
                      key |-> S3Key(fmt, cur, current_time),
                      ids |-> Ids(Group(df, cur)),
                      rows |-> FileRows(fmt, Group(df, cur))]
                ELSE NoCrash
    /\ current_time' = 0
    /\ df' = {}
    /\ todo' = {}
    /\ cur' = NoDate
    /\ upres' = {}
    /\ delcalls' = {}
    /\ UNCHANGED <<now, table, nextId, store, disk, fmt, minAge, hasId, err,
                   startup>>

Next ==
    \/ \E ts \in Instants, ctx \in CtxChoices : Insert(ts, ctx)
    \/ \E t \in Instants : Tick(t)
    \/ StartRun
    \/ Serialize
    \/ \E transferred \in BOOLEAN : Upload(transferred)
    \/ \E committed \in BOOLEAN : Delete(committed)
    \/ Kill

Spec == Init /\ [][Next]_vars

\* export_data is straight-line synchronous code: once a run has started,
\* each of its calls returns and the next statement runs (unless the
\* process is killed).
RunFairness ==
    /\ WF_vars(Serialize)
    /\ WF_vars(\E transferred \in BOOLEAN : Upload(transferred))
    /\ WF_vars(\E committed \in BOOLEAN : Delete(committed))

(***************************************************************************)
(* The module-level code, from any environment.                            *)
(***************************************************************************)
runVars == <<now, table, nextId, store, disk, fmt, minAge, hasId, pc, err,
             current_time, df, todo, cur, upres, delcalls, crash>>

InitStartup ==
    /\ InitRun /\ fmt = "json" /\ minAge = 0 /\ hasId
    /\ \E a \in [IntSettings -> ValueKinds(TRUE)],
          b \in [Settings \ IntSettings -> ValueKinds(FALSE)] :
          startup = Starting(a @@ b)

\* MYSQL_PORT = int(os.getenv('MYSQL_PORT'))
ReadPort ==
    /\ startup.at = "port"
    /\ LET e == IntError(startup.env, "MYSQL_PORT")
       IN startup' = IF e = "none"
                     THEN [startup EXCEPT !.at = "minage"]
                     ELSE [startup EXCEPT !.at = "failed", !.error = e]
    /\ UNCHANGED runVars

\* MIN_AGE_HOURS = int(os.getenv('MIN_AGE_HOURS'))
ReadMinAge ==
    /\ startup.at = "minage"
    /\ LET e == IntError(startup.env, "MIN_AGE_HOURS")
       IN startup' = IF e = "none"
                     THEN [startup EXCEPT !.at = "engine"]
                     ELSE [startup EXCEPT !.at = "failed", !.error = e]
    /\ UNCHANGED runVars

\* conn = create_engine(...)
CreateEngine ==
    /\ startup.at = "engine"
    /\ startup' = [startup EXCEPT !.at = "validate", !.engine = TRUE]
    /\ UNCHANGED runVars

\* validate_env_vars()
Validate ==
    /\ startup.at = "validate"
    /\ LET missing == MissingVars(startup.env)
       IN startup' = IF missing # {}
                     THEN [startup EXCEPT !.at = "failed",
                                          !.error = "EnvironmentError",
                                          !.missing = missing]
                     ELSE [startup EXCEPT !.at = "ready"]
    /\ UNCHANGED runVars

NextStartup == ReadPort \/ ReadMinAge \/ CreateEngine \/ Validate

SpecStartup == InitStartup /\ [][NextStartup]_vars

(***************************************************************************)
(* double_json_load on every value: the first statements of export_data    *)
(* on tables of one or two rows, all old enough, of any context values.    *)
(***************************************************************************)
ContextRow(i, v) == [id |-> i, ts |-> 0, ctx |-> v]

InitJson ==
    /\ now = 0
    /\ table \in {{ContextRow(1, v)} : v \in JsonValues}
                 \cup {{ContextRow(1, v), ContextRow(2, w)} :
                          v \in JsonValues, w \in JsonValues}
    /\ nextId = Cardinality(table) + 1
    /\ store = {}
    /\ disk = {}
    /\ fmt = "parquet"
    /\ minAge = 0
    /\ hasId = TRUE
    /\ pc = "idle"
    /\ err = "none"
    /\ current_time = 0
    /\ df = {}
    /\ todo = {}
    /\ cur = NoDate
    /\ upres = {}
    /\ delcalls = {}
    /\ crash = NoCrash
    /\ startup = Started(GoodEnv)

NextJson == StartRun

SpecJson == InitJson /\ [][NextJson]_vars

\* The runs against a table that has the 'id' column section 6 of the
\* specification requires.
InitWithId == Init /\ hasId

FairSpec == InitWithId /\ [][Next]_vars /\ RunFairness

(***************************************************************************)
(* The claims.                                                             *)
(***************************************************************************)
\* the cutoff of the run in progress
Cutoff == current_time - minAge * SecondsPerHour

\* C1: delete_uploaded_rows is called for a partition only once
\* upload_to_s3 has returned True for it, never for one whose upload
\* returned False, and it is called for every partition whose upload
\* returned True as soon as that partition is finished.
C1_UploadGatesDelete ==
    /\ \A d \in delcalls : <<d, TRUE>> \in upres /\ <<d, FALSE>> \notin upres
    /\ \A p \in upres :
          p[2] => (p[1] \in delcalls \/ (pc = "uploaded" /\ p[1] = cur))

\* C1 witness: in one run an upload failed, a later one succeeded and the
\* delete was called for the later one only.
C1_Witness ==
    \E p, q \in upres :
        /\ ~p[2] /\ q[2]
        /\ q[1] \in delcalls /\ p[1] \notin delcalls
        /\ pc = "done"

\* the ids of the rows that are no longer in the table
RemovedIds == (1..(nextId - 1)) \ Ids(table)

\* C2: every row removed from the table is in an object of the store.
C2_NoDataLoss ==
    \A i \in RemovedIds : \E o \in store : i \in Ids(o.rows)

\* C3: a step removes from the table only rows whose id is in the
\* partition just uploaded; every other row stays as it is.
C3_DeleteFrame ==
    [][\A r \in table :
          r \notin table' => pc = "uploaded" /\ r.id \in Ids(Group(df, cur))]_vars

\* C3 witness: the delete of a partition is done, and the table holds a
\* row old enough for this run that was inserted after its SELECT.
C3_Witness ==
    /\ hasId /\ cur \in delcalls /\ pc \in {"loop", "done"}
    /\ Ids(Group(df, cur)) \cap Ids(table) = {}
    /\ \E r \in table : r.ts <= Cutoff /\ r.id \notin Ids(df)

\* C4: a failed delete does not end the run while partitions remain.
C4_DeleteFailureIsolated ==
    ~(pc = "aborted" /\ err = "DBError" /\ todo # {})

\* C5: a failed upload never raises; the partition's rows stay in the
\* table, its file stays on disk, and the run goes on to the next
\* partition (or ends normally when it was the last).
C5_UploadFailureContained ==
    /\ err # "UploadError"
    /\ \A p \in upres :
          ~p[2] => /\ Ids(Group(df, p[1])) \subseteq Ids(table)
                   /\ LocalPath(fmt, p[1], current_time) \in disk
    /\ <<cur, FALSE>> \in upres => pc = AfterGroup(todo)

\* C5 witness: an upload failed and the run went on to upload a later
\* partition.
C5_Witness ==
    \E p, q \in upres : ~p[2] /\ q[2] /\ q[1] > p[1]

\* the re-run after a kill between upload and delete has uploaded the
\* partition of the same date
RerunUploaded ==
    crash.phase = "rerun" /\ pc = "uploaded" /\ cur = crash.date

\* C6 as stated: the re-run writes the partition to the interrupted run's
\* key, with the same content, and deletes the same ids.  It is stated for
\* the re-runs that find the rows of that date as the interrupted run left
\* them, so that only the re-run itself can make a difference.
C6_RerunSameKeySameIds ==
    (RerunUploaded /\ Ids(Group(table, crash.date)) = crash.ids) =>
        /\ S3Key(fmt, cur, current_time) = crash.key
        /\ FileRows(fmt, Group(df, cur)) = crash.rows
        /\ Ids(Group(df, cur)) = crash.ids

\* C6 amended: the re-run's partition of that date holds every row of
\* the interrupted one; its key has the same format and date and is the
\* interrupted run's key exactly when the two runs started at the same
\* time of day; and once its delete is committed none of the interrupted
\* partition's ids is left in the table.
C6_RerunSupersetOwnKey ==
    /\ RerunUploaded =>
          /\ crash.rows \subseteq FileRows(fmt, Group(df, cur))
          /\ crash.ids \subseteq Ids(Group(df, cur))
          /\ S3Key(fmt, cur, current_time)[1] = crash.key[1]
          /\ S3Key(fmt, cur, current_time)[2] = crash.key[2]
          /\ (S3Key(fmt, cur, current_time) = crash.key
                <=> current_time % SecondsPerDay = crash.key[3])
    /\ (crash.phase = "rerun" /\ crash.date \in delcalls /\ hasId /\ err = "none")
          => crash.ids \cap Ids(table) = {}

\* C6 witness: the re-run has uploaded the partition under another key
\* and with more rows than the interrupted run.
C6_Witness ==
    /\ RerunUploaded
    /\ S3Key(fmt, cur, current_time) # crash.key
    /\ crash.ids # Ids(Group(df, cur))

\* C7: of every partition of the run, either all rows are in the table or
\* none is.
C7_AtomicDelete ==
    \A d \in Dates(df) :
        \/ Ids(Group(df, d)) \subseteq Ids(table)
        \/ Ids(Group(df, d)) \cap Ids(table) = {}

\* C7 witness: the delete of a partition of two rows failed.
C7_Witness ==
    /\ pc = "aborted" /\ err = "DBError"
    /\ Cardinality(Group(df, cur)) >= 2
    /\ Ids(Group(df, cur)) \subseteq Ids(table)

\* C8: no context value ends a run, in either export format.
C8_MalformedContextNeverAborts == err \notin {"JSONDecodeError", "ArrowException"}

\* C9: the rows of the run all have a timestamp at or before the cutoff,
\* and so have the rows it uploads and the rows it deletes; a row exactly
\* at the cutoff is taken.
C9_FilterCorrect ==
    [][/\ \A r \in df' : r.ts <= Cutoff'
       /\ \A r \in table \ table' : r.ts <= Cutoff
       /\ \A o \in store' \ store : \A r \in o.rows : r.ts <= Cutoff
       /\ StartRun => \A r \in table : r.ts = Cutoff' => r.id \in Ids(df')]_vars

\* C9 witness: the run has deleted a partition, one of its rows is exactly
\* at the cutoff, and the table holds a newer row.
C9_Witness ==
    /\ hasId /\ minAge > 0 /\ delcalls # {} /\ pc = "done"
    /\ \E r \in df : r.ts = Cutoff /\ r.id \notin Ids(table)
    /\ \E r \in table : r.ts > Cutoff

\* C10: the groups of a run are pairwise disjoint, their union is df, and
\* a run that ends normally has gone through each of them.
C10_PartitionComplete ==
    /\ UNION {Group(df, d) : d \in Dates(df)} = df
    /\ \A d1, d2 \in Dates(df) : d1 # d2 => Group(df, d1) \cap Group(df, d2) = {}
    /\ todo \subseteq Dates(df)
    /\ pc = "done" => UNION {Group(df, p[1]) : p \in upres} = df

\* C10 witness: a run of two partitions has ended normally.
C10_Witness ==
    /\ pc = "done"
    /\ Cardinality(Dates(df)) >= 2
    /\ Cardinality({p[1] : p \in upres}) >= 2

\* C11: every row of a partition has a timestamp whose UTC calendar date
\* is the partition's key, and that key is the date in the destination
\* key of the object that holds the row.
C11_PartitionKeyCorrect ==
    /\ \A d \in Dates(df) : \A r \in Group(df, d) : r.ts \div SecondsPerDay = d
    /\ \A o \in store : \A r \in o.rows : r.ts \div SecondsPerDay = o.key[2]

\* C11 witness: rows of day 0 and of day 1 were exported by one run to
\* two objects, keyed by day 0 and day 1, each holding its own row only.
C11_Witness ==
    \E o1, o2 \in store :
        /\ o1.key[2] = 0 /\ o2.key[2] = 1 /\ o1.at = o2.at
        /\ Cardinality(o1.rows) = 1 /\ Cardinality(o2.rows) = 1
        /\ \A r \in o1.rows : r.ts = 0
        /\ \A r \in o2.rows : r.ts = SecondsPerDay

\* C12: with an export format other than json and parquet a run never
\* ends normally: it ends with the ValueError; and no file is written,
\* nothing is uploaded and no row is deleted.
C12_UnsupportedFormatFails ==
    fmt \notin {"json", "parquet"} =>
        /\ pc # "done"
        /\ pc = "aborted" => err = "ValueError"
        /\ disk = {} /\ store = {} /\ RemovedIds = {}

\* C13: a run that finds no row at or before the cutoff ends normally at
\* once, with no partition, and from there on writes no file, uploads
\* nothing and deletes nothing.
C13_EmptyRunIsNoOp ==
    [][/\ (StartRun /\ \A r \in table : r.ts > now - minAge * SecondsPerHour)
            => /\ pc' = "done" /\ err' = "none" /\ df' = {} /\ todo' = {}
               /\ upres' = {} /\ delcalls' = {}
               /\ disk' = disk /\ store' = store /\ table' = table
       /\ (pc = "done" /\ df = {} /\ ~StartRun)
            => /\ disk' = disk /\ store' = store /\ table \subseteq table'
               /\ pc' = pc /\ err' = err /\ upres' = upres
               /\ delcalls' = delcalls]_vars

\* C13 witness: a run has ended normally without a partition although the
\* table holds a row, newer than the cutoff.
C13_Witness ==
    /\ pc = "done" /\ err = "none" /\ df = {} /\ upres = {} /\ delcalls = {}
    /\ table # {}
    /\ \A r \in table : r.ts > Cutoff

\* a run is in progress
Running == pc \in {"loop", "serialized", "uploaded"}

\* C14: every run ends; and when a run has ended normally with every
\* upload reported successful, every row of df is in the object at the
\* destination key of its partition.
C14_AtLeastOnceUpload ==
    /\ Running ~> ~Running
    /\ [](pc = "done" /\ (\A p \in upres : p[2]) =>
            \A r \in df : \E o \in store :
                /\ o.key = <<fmt, r.ts \div SecondsPerDay,
                             current_time % SecondsPerDay>>
                /\ r.id \in Ids(o.rows))

\* C14 witness: a run of two partitions has ended normally with both
\* uploads successful and both objects in the store.
C14_Witness ==
    /\ pc = "done" /\ err = "none"
    /\ Cardinality(upres) = 2 /\ \A p \in upres : p[2]
    /\ Cardinality({o \in store : o.at = current_time}) = 2

\* C15: once a partition is complete (uploaded and deleted) and the run
\* has ended, its local file is no longer on disk.
C15_NoFileLeftAfterSuccess ==
    \A p \in upres :
        (pc = "done" /\ p[2] /\ p[1] \in delcalls)
            => LocalPath(fmt, p[1], current_time) \notin disk

\* C17: no step replaces an object of the store by one written by a run
\* that started at another instant.
C17_RunsNeverCollide ==
    [][\A o \in store : \E o2 \in store' : o2.key = o.key /\ o2.at = o.at]_vars

\* C18: without an 'id' column no step removes a row and no run ends with
\* a database error: the step after a successful upload leaves the table
\* as it is and goes on to the next partition, or ends the run normally.
C18_NoIdColumnSkipsDelete ==
    [][~hasId =>
          /\ table \subseteq table'
          /\ err' # "DBError"
          /\ (pc = "uploaded" /\ pc' \notin {"uploaded", "killed"})
                => /\ table' = table
                   /\ pc' = (IF todo = {} THEN "done" ELSE "loop")
                   /\ err' = err]_vars

\* C18 witness: without an 'id' column the delete was called for a
\* partition, its rows are still in the table and the run goes on with the
\* next partition.
C18_Witness ==
    /\ ~hasId /\ cur \in delcalls /\ pc = "loop" /\ todo # {}
    /\ Ids(Group(df, cur)) \subseteq Ids(table)

\* the dates whose upload was attempted in this run
Attempted == {p[1] : p \in upres}

\* C19: a step that uploads finds no upload of that partition in this
\* run, a step that calls the delete finds no delete of it, and a step
\* that starts a partition finds the one before finished: its upload
\* attempted, its delete called if the upload succeeded; the partition it
\* starts has been neither uploaded nor deleted before.
C19_OneAtATimeAtMostOnce ==
    [][/\ (pc = "serialized" /\ pc' \notin {"serialized", "killed"})
            => cur \notin Attempted /\ cur \notin delcalls
       /\ (pc = "uploaded" /\ pc' \notin {"uploaded", "killed"})
            => cur \notin delcalls /\ <<cur, TRUE>> \in upres
       /\ (pc = "loop" /\ pc' \notin {"loop", "killed"})
            => /\ cur # NoDate => cur \in Attempted
               /\ <<cur, TRUE>> \in upres => cur \in delcalls
               /\ cur' \notin Attempted /\ cur' \notin delcalls
               /\ cur' # cur
       /\ \A p, q \in upres' : p[1] = q[1] => p = q]_vars

\* C19 witness: a run went through two partitions, the first with a
\* failed upload, and never came back to it.
C19_Witness ==
    /\ pc = "done" /\ Cardinality(upres) = 2 /\ Cardinality(Attempted) = 2
    /\ \E p \in upres : ~p[2] /\ p[1] \notin delcalls /\ p[1] # cur

\* the settings the claim C16 counts as required
RequiredSettings == required_vars \cup {"MIN_AGE_HOURS"}

\* C16: when a required setting is missing no engine is ever set up, and
\* the start ends in the EnvironmentError that lists every missing
\* required setting.
C16_StartupFailsFast ==
    (\E var \in RequiredSettings : startup.env[var] = "unset") =>
        /\ ~startup.engine
        /\ startup.at # "ready"
        /\ startup.at = "failed" =>
              /\ startup.error = "EnvironmentError"
              /\ startup.missing = MissingVars(startup.env)

\* what the claim C20 says double_json_load returns for v
ExpectedLoad(v) ==
    IF v[1] \notin {"enc", "raw", "bad"} THEN v         \* not a string
    ELSE IF v[1] # "enc" THEN v                          \* first decode fails
    ELSE LET once == Tail(v) IN
         IF once[1] \notin {"enc", "raw", "bad"} THEN once
         ELSE IF once[1] = "enc" THEN Tail(once)
         ELSE v                                          \* second decode fails

\* C20: the decoding of the context column never raises, and every value
\* comes out as the claim says: a non-string unchanged, a string decoded
\* once or, when that gives a string, twice, and the original value when
\* a decode fails.
C20_DoubleLoadCases ==
    pc # "idle" =>
        /\ pc = "loop" /\ err = "none"
        /\ \A t \in table : \E r \in df :
              r.id = t.id /\ r.ctx = ExpectedLoad(t.ctx)

\* C20 witness: a double-encoded dict came out as the dict, and an encoded
\* non-JSON string, whose second decode fails, came out as it went in.
C20_Witness ==
    /\ pc = "loop"
    /\ \E t \in table, r \in df :
          t.id = r.id /\ t.ctx = <<"enc", "enc", "obj">> /\ r.ctx = <<"obj">>
    /\ \E t \in table, r \in df :
          t.id = r.id /\ t.ctx = <<"enc", "raw">> /\ r.ctx = <<"enc", "raw">>

====
